---- MODULE Spec2Model ----
(***************************************************************************)
(* jenks_breaks_optimized (src/src/lib.rs): Jenks natural breaks by        *)
(* dynamic programming, as a state machine of one call.                    *)
(*                                                                         *)
(* Numbers.  The observations are drawn from a small range of integers.    *)
(* cumulative_sum and cumulative_sum_squares are then integers.  A         *)
(* variance is sum_squares - sum*sum/w with 1 <= w <= n_data, a rational   *)
(* number; it is kept exactly, as its numerator over the fixed denominator *)
(* Scale (a common multiple of every possible w).  f64::INFINITY is a      *)
(* value of its own, greater than every finite value.  Rounding and        *)
(* overflow of f64 arithmetic are outside this model.                      *)
(*                                                                         *)
(* Vectors are functions over 0 .. len-1, as in the source; a vector not  *)
(* yet allocated is the empty function << >>.                              *)
(***************************************************************************)
EXTENDS Integers, Sequences, FiniteSets, TLC

\* ------------------------------------------------------------------ bounds
MaxLen == 5
MaxVal == 2
MinVal == 0 - 1

ScenarioA == <<1, 2, 3, 4, 5, 6, 7, 8, 9>>
ScenarioB == <<1, 1, 1, 5, 5, 5>>

Max(a, b) == IF a >= b THEN a ELSE b

RECURSIVE Gcd(_, _)
Gcd(a, b) == IF b = 0 THEN a ELSE Gcd(b, a % b)

RECURSIVE LcmUpTo(_)
LcmUpTo(m) == IF m <= 1 THEN 1
              ELSE LET l == LcmUpTo(m - 1) IN (l * m) \div Gcd(l, m)

\* The denominator of every stored variance.
Scale == LcmUpTo(Max(MaxLen, Len(ScenarioA)))

Vals == MinVal .. MaxVal

RECURSIVE SeqsOfLen(_)
SeqsOfLen(m) == IF m = 0 THEN {<< >>}
                ELSE {Append(s, v) : s \in SeqsOfLen(m - 1), v \in Vals}

BoundedData == UNION {SeqsOfLen(m) : m \in 0 .. MaxLen}

\* The calls explored: every bounded (data, num_classes) and the two
\* scenarios of the specification.
Inputs == (BoundedData \X (0 .. MaxLen + 1))
            \cup {<<ScenarioA, 3>>, <<ScenarioB, 2>>}

\* ------------------------------------------------------------ f64 values
Infinity == [inf |-> TRUE, num |-> 0]
Fin(x) == [inf |-> FALSE, num |-> x]

\* a < b on f64 (finite values and +infinity).
Lt(a, b) == IF a.inf THEN FALSE ELSE IF b.inf THEN TRUE ELSE a.num < b.num

\* a + b on f64 (finite values and +infinity).
Add(a, b) == IF a.inf \/ b.inf THEN Infinity ELSE Fin(a.num + b.num)

\* ------------------------------------------------------------ the program
VARIABLES data, num_classes, pc, i, j, k,
          cumulative_sum, cumulative_sum_squares,
          lower_class_limits, variance_combinations,
          break_indices, result, log, reads

vars == <<data, num_classes, pc, i, j, k,
          cumulative_sum, cumulative_sum_squares,
          lower_class_limits, variance_combinations,
          break_indices, result, log, reads>>

n_data == Len(data)

\* data as the source indexes it (0-based).
At(d, x) == d[x + 1]

MsgZeroClasses == "Number of classes must be a positive integer."
MsgTooManyClasses == "Number of classes cannot exceed number of data points."
MsgUnsortedMut == "The input array must be sorted."
MsgUnsorted == "The input NumPy array must be sorted."

\* data.windows(2).all(|w| w[0] <= w[1])
IsSorted(d) == \A x \in 0 .. Len(d) - 2 : At(d, x) <= At(d, x + 1)

\* The three checks, in their order; "ok" when none fires.  The source tells
\* the three errors apart by their message; the names are those of the
\* specification's error kinds.
ValidateEmptyMut(d, nc) ==
    IF nc = 0 \/ Len(d) = 0 THEN "ZeroClasses"
    ELSE IF nc > Len(d) THEN "TooManyClasses"
    ELSE IF ~IsSorted(d) THEN "UnsortedInput"
    ELSE "ok"

ValidateOrderMut(d, nc) ==
    IF ~IsSorted(d) THEN "UnsortedInput"
    ELSE IF nc > Len(d) THEN "TooManyClasses"
    ELSE IF nc = 0 THEN "ZeroClasses"
    ELSE "ok"

Validate(d, nc) ==
    IF nc = 0 THEN "ZeroClasses"
    ELSE IF nc > Len(d) THEN "TooManyClasses"
    ELSE IF ~IsSorted(d) THEN "UnsortedInput"
    ELSE "ok"

ErrMessage(kind) ==
    CASE kind = "ZeroClasses" -> MsgZeroClasses
      [] kind = "TooManyClasses" -> MsgTooManyClasses
      [] kind = "UnsortedInput" -> MsgUnsorted

\* idx = |i, j| i * (num_classes + 1) + j
idx(ii, jj) == ii * (num_classes + 1) + jj

TableLen == (n_data + 1) * (num_classes + 1)

\* sum_squares - (sum * sum) / w over the observations a+1 .. b, times Scale.
VarianceNoDivMut(cs, css, a, b) ==
    LET sum == cs[b] - cs[a]
        sum_squares == css[b] - css[a]
    IN  Fin(sum_squares * Scale - (sum * sum) * Scale)

VarianceWidthMut(cs, css, a, b) ==
    LET sum == cs[b] - cs[a]
        sum_squares == css[b] - css[a]
        w == b - a + 1
    IN  Fin(sum_squares * Scale - (sum * sum) * (Scale \div w))

Variance(cs, css, a, b) ==
    LET sum == cs[b] - cs[a]
        sum_squares == css[b] - css[a]
        w == b - a
    IN  Fin(sum_squares * Scale - (sum * sum) * (Scale \div w))

\* The cell of variance_combinations read on line 67: (k, j - 1).
ReadCellSameColumnMut(kk, jj) == <<kk, jj>>
ReadCell(kk, jj) == <<kk, jj - 1>>

\* total_variance of candidate kk for the cell (ii, jj), line 67.
TotalVariance(vc, cs, css, ii, jj, kk) ==
    Add(vc[idx(ReadCell(kk, jj)[1], ReadCell(kk, jj)[2])],
        Variance(cs, css, kk, ii))

\* The loop "for k in (j - 1)..i" from candidate kk on; acc holds the running
\* min_variance and min_k, and the cells read so far.
RECURSIVE ScanLeMut(_, _, _, _, _, _, _)
ScanLeMut(vc, cs, css, ii, jj, kk, acc) ==
    IF kk >= ii THEN acc
    ELSE LET total_variance == TotalVariance(vc, cs, css, ii, jj, kk)
             read == acc.read \cup {ReadCell(kk, jj)}
         IN  IF ~Lt(acc.min_variance, total_variance)
             THEN ScanLeMut(vc, cs, css, ii, jj, kk + 1,
                       [min_variance |-> total_variance, min_k |-> kk + 1,
                        read |-> read])
             ELSE ScanLeMut(vc, cs, css, ii, jj, kk + 1, [acc EXCEPT !.read = read])

RECURSIVE Scan(_, _, _, _, _, _, _)
Scan(vc, cs, css, ii, jj, kk, acc) ==
    IF kk >= ii THEN acc
    ELSE LET total_variance == TotalVariance(vc, cs, css, ii, jj, kk)
             read == acc.read \cup {ReadCell(kk, jj)}
         IN  IF Lt(total_variance, acc.min_variance)
             THEN Scan(vc, cs, css, ii, jj, kk + 1,
                       [min_variance |-> total_variance, min_k |-> kk + 1,
                        read |-> read])
             ELSE Scan(vc, cs, css, ii, jj, kk + 1, [acc EXCEPT !.read = read])

\* Lines 57-74, the body of "for i in j..=n_data": min_variance and min_k
\* start at INFINITY and 0, and the k loop runs from j - 1.
BestSplitNoInitMut(vc, cs, css, ii, jj) ==
    Scan(vc, cs, css, ii, jj, jj - 1,
         [min_variance |-> Fin(0), min_k |-> 0, read |-> {}])

BestSplit(vc, cs, css, ii, jj) ==
    Scan(vc, cs, css, ii, jj, jj - 1,
         [min_variance |-> Infinity, min_k |-> 0, read |-> {}])

Init ==
    /\ \E inp \in Inputs : data = inp[1] /\ num_classes = inp[2]
    /\ pc = "validate"
    /\ i = 0 /\ j = 0 /\ k = 0
    /\ cumulative_sum = << >>
    /\ cumulative_sum_squares = << >>
    /\ lower_class_limits = << >>
    /\ variance_combinations = << >>
    /\ break_indices = << >>
    /\ result = [kind |-> "none"]
    /\ log = << >>
    /\ reads = {}

\* Lines 10-26: the input checks; an error returns at once.
DoValidate ==
    /\ pc = "validate"
    /\ LET v == Validate(data, num_classes)
       IN  IF v = "ok"
           THEN /\ pc' = "alloc_prefix"
                /\ UNCHANGED result
           ELSE /\ pc' = "error"
                /\ result' = [kind |-> "err", err |-> v, message |-> ErrMessage(v)]
    /\ UNCHANGED <<data, num_classes, i, j, k, cumulative_sum,
                   cumulative_sum_squares, lower_class_limits,
                   variance_combinations, break_indices, log, reads>>

\* Lines 29-30: vec![0.0; n_data + 1], twice.
AllocPrefix ==
    /\ pc = "alloc_prefix"
    /\ cumulative_sum' = [x \in 0 .. n_data |-> 0]
    /\ cumulative_sum_squares' = [x \in 0 .. n_data |-> 0]
    /\ i' = 1
    /\ pc' = "prefix"
    /\ UNCHANGED <<data, num_classes, j, k, lower_class_limits,
                   variance_combinations, break_indices, result, log, reads>>

\* Lines 33-36: one iteration of the prefix-sum loop.
PrefixStep ==
    /\ pc = "prefix"
    /\ i <= n_data
    /\ cumulative_sum' =
           [cumulative_sum EXCEPT ![i] = cumulative_sum[i - 1] + At(data, i - 1)]
    /\ cumulative_sum_squares' =
           [cumulative_sum_squares EXCEPT
              ![i] = cumulative_sum_squares[i - 1] + At(data, i - 1) * At(data, i - 1)]
    /\ i' = i + 1
    /\ UNCHANGED <<data, num_classes, pc, j, k, lower_class_limits,
                   variance_combinations, break_indices, result, log, reads>>

\* Lines 39-40: the two tables, all 0 and all +infinity.
AllocTables ==
    /\ pc = "prefix"
    /\ i > n_data
    /\ lower_class_limits' = [x \in 0 .. TableLen - 1 |-> 0]
    /\ variance_combinations' = [x \in 0 .. TableLen - 1 |-> Infinity]
    /\ i' = 1
    /\ pc' = "first"
    /\ UNCHANGED <<data, num_classes, j, k, cumulative_sum,
                   cumulative_sum_squares, break_indices, result, log, reads>>

\* Lines 46-52: one iteration of the loop for the first class (j = 1).
FirstClassStep ==
    /\ pc = "first"
    /\ i <= n_data
    /\ lower_class_limits' = [lower_class_limits EXCEPT ![idx(i, 1)] = 1]
    /\ variance_combinations' =
           [variance_combinations EXCEPT
              ![idx(i, 1)] = Variance(cumulative_sum, cumulative_sum_squares, 0, i)]
    /\ log' = Append(log, <<i, 1>>)
    /\ reads' = {}
    /\ i' = i + 1
    /\ UNCHANGED <<data, num_classes, pc, j, k, cumulative_sum,
                   cumulative_sum_squares, break_indices, result>>

\* Line 55, entering "for j in 2..=num_classes".
EnterFill ==
    /\ pc = "first"
    /\ i > n_data
    /\ j' = 2
    /\ i' = 2
    /\ pc' = "fill"
    /\ UNCHANGED <<data, num_classes, k, cumulative_sum, cumulative_sum_squares,
                   lower_class_limits, variance_combinations, break_indices,
                   result, log, reads>>

\* Lines 56-79: one iteration of "for i in j..=n_data", the k loop included.
FillStep ==
    /\ pc = "fill"
    /\ j <= num_classes
    /\ i <= n_data
    /\ LET best == BestSplit(variance_combinations, cumulative_sum,
                             cumulative_sum_squares, i, j)
       IN  /\ lower_class_limits' =
                  [lower_class_limits EXCEPT ![idx(i, j)] = best.min_k]
           /\ variance_combinations' =
                  [variance_combinations EXCEPT ![idx(i, j)] = best.min_variance]
           /\ reads' = best.read
    /\ log' = Append(log, <<i, j>>)
    /\ IF i < n_data
       THEN i' = i + 1 /\ j' = j
       ELSE i' = j + 1 /\ j' = j + 1
    /\ UNCHANGED <<data, num_classes, pc, k, cumulative_sum,
                   cumulative_sum_squares, break_indices, result>>

\* Lines 83-85: vec![0; num_classes - 1], k = n_data, j = num_classes.
AllocBreaks ==
    /\ pc = "fill"
    /\ j > num_classes
    /\ break_indices' = [x \in 0 .. num_classes - 2 |-> 0]
    /\ k' = n_data
    /\ j' = num_classes
    /\ pc' = "backtrack"
    /\ UNCHANGED <<data, num_classes, i, cumulative_sum, cumulative_sum_squares,
                   lower_class_limits, variance_combinations, result, log, reads>>

\* usize::MAX, written as its value modulo 2^64.
UsizeMax == 0 - 1

\* The value stored by line 86: lower_class_limits[idx(k, j)] - 1.
BreakOfNoSubMut(lcl, kk, jj) == lcl[idx(kk, jj)]
BreakOf(lcl, kk, jj) == lcl[idx(kk, jj)] - 1

\* The slot of break_indices written by line 86.
SlotOfReverseMut(jj) == num_classes - jj
SlotOf(jj) == jj - 2

\* Lines 85-88: one iteration of the backtracking loop.  A subtraction
\* from 0 panics (overflow checks on) or wraps (overflow checks off); an
\* index outside the table panics.
BacktrackStep ==
    /\ pc = "backtrack"
    /\ j >= 2
    /\ IF idx(k, j) \notin DOMAIN lower_class_limits
          \/ SlotOf(j) \notin DOMAIN break_indices
       THEN /\ pc' = "panic"
            /\ UNCHANGED <<break_indices, k, j>>
       ELSE IF BreakOf(lower_class_limits, k, j) < 0
       THEN \/ /\ pc' = "panic"
               /\ UNCHANGED <<break_indices, k, j>>
            \/ /\ break_indices' = [break_indices EXCEPT ![SlotOf(j)] = UsizeMax]
               /\ k' = UsizeMax
               /\ j' = j - 1
               /\ UNCHANGED pc
       ELSE /\ break_indices' =
                   [break_indices EXCEPT
                      ![SlotOf(j)] = BreakOf(lower_class_limits, k, j)]
            /\ k' = BreakOf(lower_class_limits, k, j)
            /\ j' = j - 1
            /\ UNCHANGED pc
    /\ UNCHANGED <<data, num_classes, i, cumulative_sum, cumulative_sum_squares,
                   lower_class_limits, variance_combinations, result, log, reads>>

\* Line 90: Ok(break_indices).
Return ==
    /\ pc = "backtrack"
    /\ j < 2
    /\ result' = [kind |-> "ok", breaks |-> break_indices]
    /\ pc' = "done"
    /\ UNCHANGED <<data, num_classes, i, j, k, cumulative_sum,
                   cumulative_sum_squares, lower_class_limits,
                   variance_combinations, break_indices, log, reads>>

Next ==
    \/ DoValidate
    \/ AllocPrefix
    \/ PrefixStep
    \/ AllocTables
    \/ FirstClassStep
    \/ EnterFill
    \/ FillStep
    \/ AllocBreaks
    \/ BacktrackStep
    \/ Return

Spec == Init /\ [][Next]_vars

\* ------------------------------------------------- reference definitions
\* The within-class sum of squared deviations of the observations a+1 .. b
\* from their mean, by two passes over the observations (first the mean, then
\* the deviations), times Scale.  With w = b - a and S their sum, the sum of
\* (x - S/w)^2 is the sum of (w*x - S)^2 divided by w^2.
RECURSIVE SumRange(_, _, _)
SumRange(d, a, b) == IF b <= a THEN 0 ELSE At(d, b - 1) + SumRange(d, a, b - 1)

RECURSIVE DevRange(_, _, _, _, _)
DevRange(d, a, b, w, S) ==
    IF b <= a THEN 0
    ELSE (w * At(d, b - 1) - S) * (w * At(d, b - 1) - S) + DevRange(d, a, b - 1, w, S)

DirectSsd(d, a, b) ==
    LET w == b - a
        S == SumRange(d, a, b)
    IN  (DevRange(d, a, b, w, S) \div w) * (Scale \div w)

MaxOf(S) == CHOOSE x \in S : \A y \in S : y <= x
MinOf(S) == CHOOSE x \in S : \A y \in S : x <= y

\* The total of DirectSsd over the classes that the boundaries B cut out of
\* the first m observations.
RECURSIVE CostOf(_, _, _)
CostOf(d, B, m) ==
    IF m = 0 THEN 0
    ELSE LET p == MaxOf({0} \cup {x \in B : x < m})
         IN  DirectSsd(d, p, m) + CostOf(d, B, p)

\* Every way of splitting the first m observations into jj contiguous
\* non-empty classes, as the set of the class starts after the first.
Splits(m, jj) == {B \in SUBSET (1 .. m - 1) : Cardinality(B) = jj - 1}

BruteMin(d, m, jj) == MinOf({CostOf(d, B, m) : B \in Splits(m, jj)})

\* The boundaries found by taking, from the last class back to the second,
\* the leftmost start of the class that some optimal partition has.
RECURSIVE LeftmostBreaks(_, _, _)
LeftmostBreaks(d, m, jj) ==
    IF jj <= 1 THEN << >>
    ELSE LET b == MinOf({c \in (jj - 1) .. (m - 1) :
                           BruteMin(d, c, jj - 1) + DirectSsd(d, c, m)
                             = BruteMin(d, m, jj)})
         IN  Append(LeftmostBreaks(d, b, jj - 1), b)

\* The returned breakpoints, as a sequence.
Breaks == [x \in 1 .. num_classes - 1 |-> result.breaks[x - 1]]
BreakSet == {Breaks[x] : x \in DOMAIN Breaks}

StrictlyIncreasing(sq) == \A x \in 1 .. Len(sq) - 1 : sq[x] < sq[x + 1]

Returned == pc = "done" /\ result.kind = "ok"
Failed == pc = "error" /\ result.kind = "err"
FillDone == pc \in {"backtrack", "done", "panic"}

Cell(ii, jj) == idx(ii, jj)
Logged == {log[x] : x \in DOMAIN log}

\* ------------------------------------------------------------------ claims
\* C1: on a valid call the returned breakpoints cut data into num_classes
\* contiguous non-empty classes whose total within-class sum of squared
\* deviations is the least over all such splits (brute force, exact
\* arithmetic); [1..9] with 3 classes gives [3, 6], and [1,1,1,5,5,5] with 2
\* classes gives [3] with total 0.
C1_Optimal ==
    Returned =>
        /\ StrictlyIncreasing(Breaks)
        /\ BreakSet \subseteq 1 .. n_data - 1
        /\ Cardinality(BreakSet) = num_classes - 1
        /\ CostOf(data, BreakSet, n_data) = BruteMin(data, n_data, num_classes)
        /\ (data = ScenarioA /\ num_classes = 3 => Breaks = <<3, 6>>)
        /\ (data = ScenarioB /\ num_classes = 2 =>
              Breaks = <<3>> /\ CostOf(data, BreakSet, n_data) = 0)

C1_Witness ==
    /\ Returned
    /\ data = ScenarioA
    /\ Breaks = <<3, 6>>

\* C2: a successful call returns exactly num_classes - 1 zero-based indices,
\* strictly increasing, each the start offset of a class after the first;
\* with one class the result is empty.
C2_ResultShape ==
    Returned =>
        /\ DOMAIN result.breaks = 0 .. num_classes - 2
        /\ StrictlyIncreasing(Breaks)
        /\ \A x \in DOMAIN Breaks : Breaks[x] \in 1 .. n_data - 1
        /\ (num_classes = 1 => result.breaks = << >>)

C2_Witness ==
    /\ Returned
    /\ num_classes >= 3
    /\ Len(Breaks) = num_classes - 1

\* C6 as stated: with num_classes = n the result is [0, 1, ..., n-2] and the
\* total variance variance_combinations[n][n] is 0.
C6_AsStated ==
    (Returned /\ num_classes = n_data) =>
        /\ Breaks = [x \in 1 .. n_data - 1 |-> x - 1]
        /\ variance_combinations[Cell(n_data, n_data)] = Fin(0)

\* C6 amended: with num_classes = n the result is [1, 2, ..., n-1] (the
\* zero-based start of every class after the first), every observation is
\* its own class, and variance_combinations[n][n] is 0, whether or not values
\* repeat.
C6_AllSingletons ==
    (Returned /\ num_classes = n_data) =>
        /\ Breaks = [x \in 1 .. n_data - 1 |-> x]
        /\ BreakSet \cup {0} = 0 .. n_data - 1
        /\ variance_combinations[Cell(n_data, n_data)] = Fin(0)

C6_Witness ==
    /\ Returned
    /\ num_classes = n_data
    /\ n_data >= 3
    /\ \E x \in 1 .. n_data - 1 : data[x] = data[x + 1]
    /\ \E x \in 1 .. n_data - 1 : data[x] < data[x + 1]

\* The three error conditions, as the claims word them.
HasDescent == \E x \in 1 .. n_data - 1 : data[x] > data[x + 1]
ErrorDue == num_classes = 0 \/ num_classes > n_data \/ HasDescent
KindDue ==
    IF num_classes = 0 THEN "ZeroClasses"
    ELSE IF num_classes > n_data THEN "TooManyClasses"
    ELSE "UnsortedInput"

NoWorkDone ==
    /\ cumulative_sum = << >>
    /\ cumulative_sum_squares = << >>
    /\ lower_class_limits = << >>
    /\ variance_combinations = << >>
    /\ break_indices = << >>
    /\ log = << >>

\* C3: a call fails exactly when num_classes = 0, or num_classes > len(data),
\* or some adjacent pair descends; the kind is that of the first of these
\* conditions that holds; the error is returned before any prefix-sum or
\* table work; every other call returns breakpoints and no error.
C3_Errors ==
    pc # "validate" =>
        /\ (pc = "error") <=> ErrorDue
        /\ pc = "error" =>
              /\ result.kind = "err"
              /\ result.err = KindDue
              /\ NoWorkDone
        /\ ~ErrorDue => pc # "panic" /\ result.kind # "err"
        /\ pc = "done" => result.kind = "ok"

C3_Witness ==
    /\ Failed
    /\ result.err = "UnsortedInput"
    /\ num_classes >= 2
    /\ num_classes <= n_data

\* C4 as stated: empty data with num_classes = 1 fails with ZeroClasses.
C4_AsStated ==
    (pc # "validate" /\ data = << >> /\ num_classes = 1) =>
        Failed /\ result.err = "ZeroClasses"

\* C4 amended: empty data with num_classes = 1 fails with TooManyClasses
\* (1 > 0 observations); only num_classes = 0 gives ZeroClasses.
C4_EmptyData ==
    /\ (pc # "validate" /\ data = << >> /\ num_classes = 1) =>
          Failed /\ result.err = "TooManyClasses"
    /\ (Failed /\ result.err = "ZeroClasses") => num_classes = 0

C4_Witness ==
    /\ Failed
    /\ data = << >>
    /\ num_classes = 1

\* C5 as stated: every error carries one of the three messages of the
\* specification, the third being "The input array must be sorted.".
C5_AsStated ==
    Failed =>
        /\ result.message \in
              {"Number of classes must be a positive integer.",
               "Number of classes cannot exceed number of data points.",
               "The input array must be sorted."}
        /\ (result.err = "UnsortedInput" =>
              result.message = "The input array must be sorted.")

\* C5 amended: the messages are "Number of classes must be a positive
\* integer." (num_classes = 0), "Number of classes cannot exceed number of
\* data points." (num_classes > n) and "The input NumPy array must be
\* sorted." (unsorted data); no error carries any other text.
C5_Messages ==
    Failed =>
        /\ (result.err = "ZeroClasses" =>
              result.message = "Number of classes must be a positive integer.")
        /\ (result.err = "TooManyClasses" =>
              result.message = "Number of classes cannot exceed number of data points.")
        /\ (result.err = "UnsortedInput" =>
              result.message = "The input NumPy array must be sorted.")
        /\ result.err \in {"ZeroClasses", "TooManyClasses", "UnsortedInput"}

C5_Witness ==
    /\ Failed
    /\ result.err = "UnsortedInput"
    /\ result.message = "The input NumPy array must be sorted."

\* The candidates of the cell (ii, jj), their totals as the claims word them
\* (bestVariance[c][j-1] + ssd(c, i)), and the candidates that attain the
\* least total.
Candidates(ii, jj) == (jj - 1) .. (ii - 1)
TotalOf(c, ii, jj) ==
    Add(variance_combinations[Cell(c, jj - 1)],
        Variance(cumulative_sum, cumulative_sum_squares, c, ii))
Minimal(ii, jj) ==
    {c \in Candidates(ii, jj) :
        \A c2 \in Candidates(ii, jj) : ~Lt(TotalOf(c2, ii, jj), TotalOf(c, ii, jj))}

\* C7: every filled cell (i, j) with j >= 2 holds lastBreak = c* + 1 for the
\* smallest candidate c* that attains the least total, and bestVariance = that
\* total; the returned breakpoints are the leftmost optimal start of the last
\* class at each backtracking step.
C7_LeftmostTie ==
    /\ \A cell \in Logged :
          cell[2] >= 2 =>
             LET ii == cell[1]
                 jj == cell[2]
                 cstar == MinOf(Minimal(ii, jj))
             IN  /\ Minimal(ii, jj) # {}
                 /\ lower_class_limits[Cell(ii, jj)] = cstar + 1
                 /\ variance_combinations[Cell(ii, jj)] = TotalOf(cstar, ii, jj)
    /\ Returned => Breaks = LeftmostBreaks(data, n_data, num_classes)

C7_Witness ==
    /\ Returned
    /\ \E cell \in Logged :
          /\ cell[2] >= 2
          /\ Cardinality(Minimal(cell[1], cell[2])) >= 2
          /\ cell[1] = n_data /\ cell[2] = num_classes
          /\ Cardinality(Candidates(cell[1], cell[2])) >
                Cardinality(Minimal(cell[1], cell[2]))

\* C8: once the tables are filled, the optimal total variance of all n
\* observations for m + 1 classes is at most that for m classes.
C8_Monotone ==
    FillDone =>
        \A m \in 1 .. num_classes - 1 :
            ~Lt(variance_combinations[Cell(n_data, m)],
                variance_combinations[Cell(n_data, m + 1)])

C8_Witness ==
    /\ Returned
    /\ num_classes >= 3
    /\ \E m \in 1 .. num_classes - 1 :
          Lt(variance_combinations[Cell(n_data, m + 1)],
             variance_combinations[Cell(n_data, m)])
    /\ \E m \in 1 .. num_classes - 1 :
          variance_combinations[Cell(n_data, m + 1)]
             = variance_combinations[Cell(n_data, m)]

\* (j, i) order of two cells given as <<i, j>>.
Before(c1, c2) == c1[2] < c2[2] \/ (c1[2] = c2[2] /\ c1[1] < c2[1])

AllCells == {<<ii, jj>> \in (1 .. n_data) \X (1 .. num_classes) : jj <= ii}

\* The table with every column from jj on as it was allocated.
Blanked(vc, jj) ==
    [x \in DOMAIN vc |-> IF x % (num_classes + 1) >= jj THEN Infinity ELSE vc[x]]

\* The state part of C9.
C9_FillState ==
    /\ \A x, y \in DOMAIN log : x < y => Before(log[x], log[y])
    /\ Logged \subseteq AllCells
    /\ FillDone => Logged = AllCells
    /\ \A x \in DOMAIN variance_combinations :
          (\A cell \in Logged : Cell(cell[1], cell[2]) # x) =>
              /\ variance_combinations[x] = Infinity
              /\ lower_class_limits[x] = 0
    /\ log # << >> =>
          LET ii == log[Len(log)][1]
              jj == log[Len(log)][2]
          IN  /\ jj = 1 => reads = {}
              /\ jj >= 2 => reads = {<<c, jj - 1>> : c \in (jj - 1) .. (ii - 1)}
              /\ reads \subseteq {log[x] : x \in 1 .. Len(log) - 1}
              /\ \A c \in reads :
                    variance_combinations[Cell(c[1], c[2])] # Infinity
    /\ \A cell \in Logged :
          cell[2] >= 2 =>
             LET best == BestSplit(Blanked(variance_combinations, cell[2]),
                                   cumulative_sum, cumulative_sum_squares,
                                   cell[1], cell[2])
             IN  /\ variance_combinations[Cell(cell[1], cell[2])] = best.min_variance
                 /\ lower_class_limits[Cell(cell[1], cell[2])] = best.min_k

\* A finalized cell is never written again.
C9_WriteOnce ==
    \A cell \in Logged :
          /\ variance_combinations'[Cell(cell[1], cell[2])]
                = variance_combinations[Cell(cell[1], cell[2])]
          /\ lower_class_limits'[Cell(cell[1], cell[2])]
                = lower_class_limits[Cell(cell[1], cell[2])]

\* C9: cells are finalized in increasing (j, i) order, each cell (i, j) with
\* 1 <= j <= k, j <= i <= n once and no other cell ever; filling a cell of
\* column j reads only finalized cells (c, j-1), j-1 <= c <= i-1, none still
\* +infinity; what is written to a cell of column j depends on no cell of
\* column j, so the order of the cells within a column does not matter.
C9_FillOrder == [](C9_FillState) /\ [][C9_WriteOnce]_vars

C9_Witness ==
    /\ pc = "fill"
    /\ j = 3
    /\ i = n_data
    /\ Cardinality(reads) >= 2
    /\ log[Len(log)][2] = 3

====
